---------------------------- MODULE Spec2Model ----------------------------
(***************************************************************************)
(* Deadline and cancellation demo: an Echo gRPC server (echoserver.go) and *)
(* its scenario client (echoclient).  The model keeps                      *)
(*   - the client's three scopes (Background, ctxTimeout, ctxWithCancel),  *)
(*   - one sequential client issuing Echo calls on them,                   *)
(*   - one Echo handler per call, with the request scope gRPC derives for  *)
(*     it, the 10ns scope of RETURN_CONTEXT_DEADLINE_EXCEEDED and the      *)
(*     whole of simTwoTasks (parent, task one, task two, collectErrs).     *)
(* Time is a set of down-counters: Tick lets one unit of time pass for     *)
(* every armed timer and every sleeping handler at once; a timer may fire  *)
(* at any moment from the instant its counter is 0 (scheduler jitter).     *)
(***************************************************************************)
EXTENDS Integers, Sequences, FiniteSets, TLC

\* ------------------------------------------------------------ bounds
\* number of Echo calls the client issues in one run
MaxCalls == 1

\* number of requests in flight at once on one server, for the request counter
MaxHandlers == 3

\* ------------------------------------------------- program constants
\* 10*time.Nanosecond of the two context.WithTimeout calls of the server
TaskTimeout == 1
\* const clientTimeout = 100 * time.Millisecond
ClientTimeout == 1
\* ServerSleep: durationpb.New(10 * clientTimeout), in units of clientTimeout
LongSleep == 2
\* const numTasks = 2
numTasks == 2
\* ServerAction_UNSPECIFIED, _RETURN_CONTEXT_DEADLINE_EXCEEDED, _RETURN_CONTEXT_CANCELED
UNSPECIFIED == 0
RETURN_CONTEXT_DEADLINE_EXCEEDED == 1
RETURN_CONTEXT_CANCELED == 2
\* a ServerAction number the enum does not define
UnknownAction == 3

\* ------------------------------------------------------------ values
NoDeadline == -1
\* a nil *EchoResponse; no Output is this string, as every Output starts with "echoed: "
NoResp == "nil"
Calls == 1..MaxCalls
Scopes == {"ctx", "ctxTimeout", "ctxWithCancel"}
Actions == {UNSPECIFIED, RETURN_CONTEXT_DEADLINE_EXCEEDED, RETURN_CONTEXT_CANCELED, UnknownAction}
Inputs == {"", "in"}
Sleeps == {0, LongSleep}
ResponseSleeps == {0, 1}
Causes == {"nil", "Canceled", "DeadlineExceeded"}
\* the requests the client sends: a plain request carries any input and sleep, a
\* request with a special action carries the input alone, as in echoclient's main
Requests ==
    [action : {UNSPECIFIED}, input : Inputs, serverSleep : Sleeps]
    \cup [action : Actions \ {UNSPECIFIED}, input : {"in"}, serverSleep : {0}]

VARIABLES
    cctx,           \* client scope -> its cause (ctx.Err())
    tmoLeft,        \* time left before ctxTimeout's deadline
    cpc,            \* client: "idle" (no call in progress) or "waiting"
    ncalls,         \* calls issued so far; the current call is ncalls
    creq,           \* the request and scope of the current call
    cres,           \* resp, err of the last returned call
    requestID,      \* server.requestID
    responseSleep,  \* server.responseSleep
    h               \* call -> its Echo handler on the server

vars == <<cctx, tmoLeft, cpc, ncalls, creq, cres, requestID, responseSleep, h>>

\* ------------------------------------------------- context package
\* a cancel that overwrites the cause of a scope that is already done
CancelOverwrite(cause, err) == err

\* cancelCtx.cancel: the first cause sticks
CancelWith(cause, err) == IF cause = "nil" THEN err ELSE cause

\* a child derived from (or registered with) a parent takes the parent's cause
\* when the parent is done and the child is not
Propagate(parent, child) == IF child = "nil" THEN parent ELSE child

\* context.WithDeadline arms a timer of its own unless the parent's deadline is earlier
OwnTimer(parentLeft, d) == ~(parentLeft # NoDeadline /\ parentLeft < d)

Dec(n) == IF n > 0 THEN n - 1 ELSE n

\* ------------------------------------------------- status translation
\* a server that reports every error that is not a status error as UNKNOWN
ServerStatusUnknown(err) == IF err = "nil" THEN "OK" ELSE "UNKNOWN"

\* the gRPC server's conversion of the handler's returned error
ServerStatus(err) ==
    CASE err = "nil" -> "OK"
      [] err = "DeadlineExceeded" -> "DEADLINE_EXCEEDED"
      [] err = "Canceled" -> "CANCELED"
      [] err = "InvalidArgument" -> "INVALID_ARGUMENT"

\* the gRPC client's status for a call whose own scope is done
ClientStatus(cause) ==
    CASE cause = "DeadlineExceeded" -> "DEADLINE_EXCEEDED"
      [] cause = "Canceled" -> "CANCELED"

\* a response that carries the input without the prefix
OutputRaw(input) == input

\* Output: "echoed: " + request.Input
Output(input) == "echoed: " \o input

\* a handler that sleeps for the server's configured time alone
SleepConfigured(rs, requestSleep) == rs

\* sleep := s.responseSleep; if sleep < requestSleep { sleep = requestSleep }
SleepFor(rs, requestSleep) == IF rs < requestSleep THEN requestSleep ELSE rs

\* ------------------------------------------------------------ handler
IdleHandler ==
    [pc |-> "idle", action |-> 0, input |-> "", serverSleep |-> 0,
     reqID |-> 0, rst |-> FALSE,
     rctx |-> "nil", rleft |-> NoDeadline,
     ectx |-> "nil", eleft |-> NoDeadline,
     shared |-> "nil", t1ctx |-> "nil", t1left |-> NoDeadline,
     t1pc |-> "none", t1err |-> "nil", t2pc |-> "none", t2err |-> "nil",
     ppc |-> "none", i |-> 0, lastErr |-> "nil", recvd |-> <<>>,
     sleepLeft |-> 0, resp |-> NoResp, err |-> "nil", status |-> "none"]

ClosedHandler == [IdleHandler EXCEPT !.pc = "closed"]

NoRequest == [scope |-> "ctx", action |-> 0, input |-> "", serverSleep |-> 0,
              pre |-> "nil", sent |-> FALSE]
NoResult == [status |-> "none", resp |-> NoResp, origin |-> "none"]

Init ==
    /\ cctx = [s \in Scopes |-> "nil"]
    /\ tmoLeft = ClientTimeout
    /\ cpc = "idle"
    /\ ncalls = 0
    /\ creq = NoRequest
    /\ cres = NoResult
    /\ requestID = 0
    /\ responseSleep \in ResponseSleeps
    /\ h = [k \in Calls |-> IdleHandler]


\* ------------------------------------------------------------- client
\* a scope that carries a cancel function in echoclient's main
Cancellable == {"ctxTimeout", "ctxWithCancel"}

\* the deadline the call's scope carries, as the time left when the call is sent
ScopeLeft(scope) == IF scope = "ctxTimeout" THEN tmoLeft ELSE NoDeadline

\* a client that sends the request whatever the state of the scope
SendsAlways(cause) == TRUE

\* whether the gRPC client puts the request on the wire: it makes no request
\* on a scope that is already done
SendsRequest(cause) == cause = "nil"

\* client.Echo(scope, &EchoRequest{Input, ServerSleep, Action}): the call is issued.
\* On a scope that is already done it returns at once with the scope's status.
ClientEcho(scope, action, input, serverSleep) ==
    /\ cpc = "idle"
    /\ ncalls < MaxCalls
    /\ ncalls' = ncalls + 1
    /\ creq' = [scope |-> scope, action |-> action, input |-> input,
                serverSleep |-> serverSleep, pre |-> cctx[scope],
                sent |-> SendsRequest(cctx[scope])]
    /\ IF SendsRequest(cctx[scope])
       THEN /\ cpc' = "waiting"
            /\ cres' = NoResult
            /\ h' = [h EXCEPT ![ncalls + 1] =
                        [IdleHandler EXCEPT !.pc = "inflight", !.action = action,
                                            !.input = input, !.serverSleep = serverSleep,
                                            !.rleft = ScopeLeft(scope)]]
       ELSE /\ cpc' = "idle"
            /\ cres' = [status |-> ClientStatus(cctx[scope]), resp |-> NoResp,
                        origin |-> "client"]
            /\ h' = [h EXCEPT ![ncalls + 1] = ClosedHandler]
    /\ UNCHANGED <<cctx, tmoLeft, requestID, responseSleep>>

\* cancel() of ctxTimeout or ctxWithCancel
ClientCancel(scope) ==
    /\ scope \in Cancellable
    /\ cctx' = [cctx EXCEPT ![scope] = CancelWith(cctx[scope], "Canceled")]
    /\ UNCHANGED <<tmoLeft, cpc, ncalls, creq, cres, requestID, responseSleep, h>>

\* the timer of context.WithTimeout(ctx, clientTimeout) fires
ClientTimer ==
    /\ tmoLeft = 0
    /\ cctx["ctxTimeout"] = "nil"
    /\ cctx' = [cctx EXCEPT !["ctxTimeout"] = CancelWith(cctx["ctxTimeout"], "DeadlineExceeded")]
    /\ UNCHANGED <<tmoLeft, cpc, ncalls, creq, cres, requestID, responseSleep, h>>

\* client.Echo returns what the server sent: the response, or the status of the handler's error
ClientRecv ==
    /\ cpc = "waiting"
    /\ h[ncalls].pc = "done"
    /\ cpc' = "idle"
    /\ cres' = [status |-> h[ncalls].status, resp |-> h[ncalls].resp, origin |-> "server"]
    /\ UNCHANGED <<cctx, tmoLeft, ncalls, creq, requestID, responseSleep, h>>

\* a client that gives up on a call in flight by a clock of its own, whatever the
\* state of the scope
ClientGivesUp ==
    /\ cpc = "waiting"
    /\ cpc' = "idle"
    /\ cres' = [status |-> "DEADLINE_EXCEEDED", resp |-> NoResp, origin |-> "client"]
    /\ h' = [h EXCEPT ![ncalls].rst = TRUE]
    /\ UNCHANGED <<cctx, tmoLeft, ncalls, creq, requestID, responseSleep>>

\* client.Echo returns because its own scope is done while the call is in flight:
\* the status is that of the scope's cause, and the stream is reset towards the server
ClientCtxDone ==
    /\ cpc = "waiting"
    /\ cctx[creq.scope] # "nil"
    /\ cpc' = "idle"
    /\ cres' = [status |-> ClientStatus(cctx[creq.scope]), resp |-> NoResp, origin |-> "client"]
    /\ h' = [h EXCEPT ![ncalls].rst = TRUE]
    /\ UNCHANGED <<cctx, tmoLeft, ncalls, creq, requestID, responseSleep>>


\* ------------------------------------------------- scopes of a handler
\* task one's scope exists once task one has derived it
HasTaskOneCtx(r) == r.pc = "sim" /\ r.t1pc \in {"wait", "send", "done"}

\* a cancel of the shared scope that does not reach the scope derived from it
CancelSharedOnly(r, cause) == [r EXCEPT !.shared = CancelWith(r.shared, cause)]

\* a cancel of the shared scope that also cancels the scope it was derived from
CancelSharedUp(r, cause) ==
    LET s == CancelWith(r.shared, cause)
    IN  [r EXCEPT !.shared = s, !.rctx = CancelWith(r.rctx, cause),
                  !.t1ctx = IF HasTaskOneCtx(r) THEN Propagate(s, r.t1ctx) ELSE r.t1ctx]

\* cancelCtx.cancel on ctxWithCancel: the shared scope takes the cause unless it has
\* one, and task one's scope, its child, follows it
CancelShared(r, cause) ==
    LET s == CancelWith(r.shared, cause)
    IN  [r EXCEPT !.shared = s,
                  !.t1ctx = IF HasTaskOneCtx(r) THEN Propagate(s, r.t1ctx) ELSE r.t1ctx]

\* the inbound request scope fires: every scope derived from it follows
FireRequest(r, cause) ==
    LET c  == CancelWith(r.rctx, cause)
        r1 == [r EXCEPT !.rctx = c,
                        !.ectx = IF r.pc = "dlwait" THEN Propagate(c, r.ectx) ELSE r.ectx]
    IN  IF r.pc = "sim" THEN CancelShared(r1, c) ELSE r1

\* the handler's part of the state is live: the request is on its way or being handled
Live(r) == r.pc \in {"inflight", "dlwait", "sim", "sleep"}

\* return resp, err from Echo: the server sends the response or the status of err
Return(r, resp, err) ==
    [r EXCEPT !.pc = "done", !.resp = resp, !.err = err, !.status = ServerStatus(err)]

\* ------------------------------------------------------ gRPC transport
\* the stream's deadline (the grpc-timeout the client sent) elapses on the server
RequestTimer(k) ==
    /\ Live(h[k])
    /\ h[k].rleft = 0
    /\ h[k].rctx = "nil"
    /\ h' = [h EXCEPT ![k] = FireRequest(h[k], "DeadlineExceeded")]
    /\ UNCHANGED <<cctx, tmoLeft, cpc, ncalls, creq, cres, requestID, responseSleep>>

\* a server that takes the reset of the stream without cancelling the request scope
WireCancelDropped(k) ==
    /\ Live(h[k])
    /\ h[k].rst
    /\ h[k].rctx = "nil"
    /\ h' = [h EXCEPT ![k].rst = FALSE]
    /\ UNCHANGED <<cctx, tmoLeft, cpc, ncalls, creq, cres, requestID, responseSleep>>

\* the client's reset of the stream reaches the server: the request scope is cancelled
WireCancel(k) ==
    /\ Live(h[k])
    /\ h[k].rst
    /\ h[k].rctx = "nil"
    /\ h' = [h EXCEPT ![k] = FireRequest(h[k], "Canceled")]
    /\ UNCHANGED <<cctx, tmoLeft, cpc, ncalls, creq, cres, requestID, responseSleep>>

\* ---------------------------------------------------------- server.Echo
\* a switch without the default case: an unknown action is handled as a plain request
CaseNoDefault(action) ==
    CASE action = RETURN_CONTEXT_DEADLINE_EXCEEDED -> "deadline"
      [] action = RETURN_CONTEXT_CANCELED -> "canceled"
      [] OTHER -> "unspecified"

\* switch request.Action: the case the handler takes
Case(action) ==
    CASE action = UNSPECIFIED -> "unspecified"
      [] action = RETURN_CONTEXT_DEADLINE_EXCEEDED -> "deadline"
      [] action = RETURN_CONTEXT_CANCELED -> "canceled"
      [] OTHER -> "default"

\* an increment that is a read followed by a write: the write of a handler that
\* read the same value can be lost
EnterRacy(k) ==
    /\ h[k].pc = "inflight"
    /\ requestID' \in {requestID, requestID + 1}

\* requestID := s.requestID.Add(1): the handler of call k is entered
Enter(k) ==
    /\ h[k].pc = "inflight"
    /\ requestID' = requestID + 1

\* case UNSPECIFIED: fall through to time.Sleep(sleep)
EchoUnspecified(k) ==
    /\ Enter(k)
    /\ Case(h[k].action) = "unspecified"
    /\ h' = [h EXCEPT ![k].reqID = requestID + 1, ![k].pc = "sleep",
                      ![k].sleepLeft = SleepFor(responseSleep, h[k].serverSleep)]
    /\ UNCHANGED <<cctx, tmoLeft, cpc, ncalls, creq, cres, responseSleep>>

\* a handler that returns the error of the request scope after the sleep
RespondCtxErr(r) == r.rctx

\* return resp, nil: the error of the plain path, whatever ctx.Err() was logged
RespondErr(r) == "nil"

\* time.Sleep returns; the handler logs ctx.Err();
\* resp := &EchoResponse{Output: "echoed: " + request.Input}; return resp, nil
EchoRespond(k) ==
    /\ h[k].pc = "sleep"
    /\ h[k].sleepLeft = 0
    /\ h' = [h EXCEPT ![k] = Return(h[k], Output(h[k].input), RespondErr(h[k]))]
    /\ UNCHANGED <<cctx, tmoLeft, cpc, ncalls, creq, cres, requestID, responseSleep>>

\* case RETURN_CONTEXT_DEADLINE_EXCEEDED: ctx, cancel := context.WithTimeout(ctx, 10ns)
EchoDeadline(k) ==
    /\ Enter(k)
    /\ Case(h[k].action) = "deadline"
    /\ h' = [h EXCEPT ![k].reqID = requestID + 1, ![k].pc = "dlwait",
                      ![k].ectx = Propagate(h[k].rctx, "nil"),
                      ![k].eleft = IF OwnTimer(h[k].rleft, TaskTimeout)
                                   THEN TaskTimeout ELSE NoDeadline]
    /\ UNCHANGED <<cctx, tmoLeft, cpc, ncalls, creq, cres, responseSleep>>

\* the 10ns timer of Echo's scope fires
EchoTimer(k) ==
    /\ h[k].pc = "dlwait"
    /\ h[k].eleft = 0
    /\ h[k].ectx = "nil"
    /\ h' = [h EXCEPT ![k].ectx = CancelWith(h[k].ectx, "DeadlineExceeded")]
    /\ UNCHANGED <<cctx, tmoLeft, cpc, ncalls, creq, cres, requestID, responseSleep>>

\* a handler that reads the error of the request scope instead of the 10ns scope
DeadlineErrOuter(r) == r.rctx

\* err := ctx.Err(), ctx being the 10ns scope that shadows the request scope
DeadlineErr(r) == r.ectx

\* <-ctx.Done(); cancel(); err := ctx.Err(); return nil, err
EchoDeadlineReturn(k) ==
    /\ h[k].pc = "dlwait"
    /\ h[k].ectx # "nil"
    /\ LET r == [h[k] EXCEPT !.ectx = CancelWith(h[k].ectx, "Canceled")]
       IN  h' = [h EXCEPT ![k] = Return(r, NoResp, DeadlineErr(r))]
    /\ UNCHANGED <<cctx, tmoLeft, cpc, ncalls, creq, cres, requestID, responseSleep>>

\* default: return nil, status.Errorf(codes.InvalidArgument, ...)
EchoUnknown(k) ==
    /\ Enter(k)
    /\ Case(h[k].action) = "default"
    /\ h' = [h EXCEPT ![k] = Return([h[k] EXCEPT !.reqID = requestID + 1], NoResp, "InvalidArgument")]
    /\ UNCHANGED <<cctx, tmoLeft, cpc, ncalls, creq, cres, responseSleep>>


\* ---------------------------------------------------------- simTwoTasks
\* case RETURN_CONTEXT_CANCELED: err := simTwoTasks(ctx), up to the parent's first receive:
\* collectErrs := make(chan error); ctxWithCancel, cancel := context.WithCancel(ctx);
\* both tasks are started
EchoCanceled(k) ==
    /\ Enter(k)
    /\ Case(h[k].action) = "canceled"
    /\ h' = [h EXCEPT ![k].reqID = requestID + 1, ![k].pc = "sim",
                      ![k].shared = Propagate(h[k].rctx, "nil"),
                      ![k].t1pc = "create", ![k].t2pc = "wait",
                      ![k].ppc = "recv", ![k].i = 0, ![k].lastErr = "nil",
                      ![k].recvd = <<>>]
    /\ UNCHANGED <<cctx, tmoLeft, cpc, ncalls, creq, cres, responseSleep>>

\* task one: ctx, cancel := context.WithTimeout(ctxWithCancel, 10*time.Nanosecond)
TaskOneCreate(k) ==
    /\ h[k].pc = "sim"
    /\ h[k].t1pc = "create"
    /\ h' = [h EXCEPT ![k].t1pc = "wait",
                      ![k].t1ctx = Propagate(h[k].shared, "nil"),
                      ![k].t1left = IF OwnTimer(h[k].rleft, TaskTimeout)
                                    THEN TaskTimeout ELSE NoDeadline]
    /\ UNCHANGED <<cctx, tmoLeft, cpc, ncalls, creq, cres, requestID, responseSleep>>

\* the 10ns timer of task one's scope fires
TaskOneTimer(k) ==
    /\ HasTaskOneCtx(h[k])
    /\ h[k].t1left = 0
    /\ h[k].t1ctx = "nil"
    /\ h' = [h EXCEPT ![k].t1ctx = CancelWith(h[k].t1ctx, "DeadlineExceeded")]
    /\ UNCHANGED <<cctx, tmoLeft, cpc, ncalls, creq, cres, requestID, responseSleep>>

\* task one: <-ctx.Done(); cancel(); err := ctx.Err(); then it offers err on collectErrs
TaskOneDone(k) ==
    /\ h[k].pc = "sim"
    /\ h[k].t1pc = "wait"
    /\ h[k].t1ctx # "nil"
    /\ LET c == CancelWith(h[k].t1ctx, "Canceled")
       IN  h' = [h EXCEPT ![k].t1ctx = c, ![k].t1err = c, ![k].t1pc = "send"]
    /\ UNCHANGED <<cctx, tmoLeft, cpc, ncalls, creq, cres, requestID, responseSleep>>

\* a task two that reads ctxWithCancel.Err() without waiting for the done signal
TaskTwoEager(k) ==
    /\ h[k].pc = "sim"
    /\ h[k].t2pc = "wait"
    /\ h' = [h EXCEPT ![k].t2err = h[k].shared, ![k].t2pc = "send"]
    /\ UNCHANGED <<cctx, tmoLeft, cpc, ncalls, creq, cres, requestID, responseSleep>>

\* task two: <-ctxWithCancel.Done(); err := ctxWithCancel.Err(); then it offers err
TaskTwoDone(k) ==
    /\ h[k].pc = "sim"
    /\ h[k].t2pc = "wait"
    /\ h[k].shared # "nil"
    /\ h' = [h EXCEPT ![k].t2err = h[k].shared, ![k].t2pc = "send"]
    /\ UNCHANGED <<cctx, tmoLeft, cpc, ncalls, creq, cres, requestID, responseSleep>>

\* a parent that keeps the first error it collected
CollectFirst(lastErr, err) == IF lastErr # "nil" THEN lastErr ELSE err

\* lastErr = <-collectErrs: the received error replaces the one held
Collect(lastErr, err) == err

\* lastErr = <-collectErrs: the unbuffered channel hands over the error of a task
\* that is sending, and that task ends
ParentRecv(k) ==
    /\ h[k].pc = "sim"
    /\ h[k].ppc = "recv"
    /\ \/ /\ h[k].t1pc = "send"
          /\ h' = [h EXCEPT ![k].lastErr = Collect(h[k].lastErr, h[k].t1err),
                            ![k].recvd = Append(h[k].recvd, h[k].t1err),
                            ![k].t1pc = "done", ![k].ppc = "check"]
       \/ /\ h[k].t2pc = "send"
          /\ h' = [h EXCEPT ![k].lastErr = Collect(h[k].lastErr, h[k].t2err),
                            ![k].recvd = Append(h[k].recvd, h[k].t2err),
                            ![k].t2pc = "done", ![k].ppc = "check"]
    /\ UNCHANGED <<cctx, tmoLeft, cpc, ncalls, creq, cres, requestID, responseSleep>>

\* a parent that collects without cancelling the sub-tasks
AfterRecvNoCancel(r) == r

\* a parent that cancels the sub-tasks after every report, nil or not
AfterRecvAlways(r) == CancelShared(r, "Canceled")

\* the parent's step after a receive: if lastErr != nil { cancel() }
AfterRecv(r) == IF r.lastErr # "nil" THEN CancelShared(r, "Canceled") ELSE r

\* if lastErr != nil { cancel() }; i++; the loop goes on or ends
ParentCheck(k) ==
    /\ h[k].pc = "sim"
    /\ h[k].ppc = "check"
    /\ LET r == AfterRecv(h[k])
       IN  h' = [h EXCEPT ![k] = [r EXCEPT !.i = r.i + 1,
                                           !.ppc = IF r.i + 1 < numTasks THEN "recv" ELSE "ret"]]
    /\ UNCHANGED <<cctx, tmoLeft, cpc, ncalls, creq, cres, requestID, responseSleep>>

\* return lastErr, with the deferred cancel(); Echo returns nil, err
SimReturn(k) ==
    /\ h[k].pc = "sim"
    /\ h[k].ppc = "ret"
    /\ h' = [h EXCEPT ![k] = Return(CancelShared([h[k] EXCEPT !.ppc = "done"], "Canceled"),
                                    NoResp, h[k].lastErr)]
    /\ UNCHANGED <<cctx, tmoLeft, cpc, ncalls, creq, cres, requestID, responseSleep>>

\* the handler's goroutine and stream are gone once it has returned and its call is over
Retire(k) ==
    /\ h[k].pc = "done"
    /\ ~(cpc = "waiting" /\ ncalls = k)
    /\ h' = [h EXCEPT ![k] = ClosedHandler]
    /\ UNCHANGED <<cctx, tmoLeft, cpc, ncalls, creq, cres, requestID, responseSleep>>

\* ---------------------------------------------------------------- time
TickHandler(r) ==
    IF Live(r)
    THEN [r EXCEPT !.rleft = Dec(r.rleft), !.eleft = Dec(r.eleft),
                   !.t1left = Dec(r.t1left), !.sleepLeft = Dec(r.sleepLeft)]
    ELSE r

\* one unit of time passes for every running timer and sleep
Tick ==
    /\ tmoLeft' = IF cctx["ctxTimeout"] = "nil" THEN Dec(tmoLeft) ELSE tmoLeft
    /\ h' = [k \in Calls |-> TickHandler(h[k])]
    /\ <<tmoLeft', h'>> # <<tmoLeft, h>>
    /\ UNCHANGED <<cctx, cpc, ncalls, creq, cres, requestID, responseSleep>>

\* ------------------------------------------------------- specification
\* every step but the passing of time
Steps ==
    \/ \E scope \in Scopes, rq \in Requests :
          ClientEcho(scope, rq.action, rq.input, rq.serverSleep)
    \/ \E scope \in Scopes : ClientCancel(scope)
    \/ ClientTimer
    \/ ClientRecv
    \/ ClientCtxDone
    \/ \E k \in Calls : RequestTimer(k)
    \/ \E k \in Calls : WireCancel(k)
    \/ \E k \in Calls : EchoUnspecified(k)
    \/ \E k \in Calls : EchoRespond(k)
    \/ \E k \in Calls : EchoDeadline(k)
    \/ \E k \in Calls : EchoTimer(k)
    \/ \E k \in Calls : EchoDeadlineReturn(k)
    \/ \E k \in Calls : EchoUnknown(k)
    \/ \E k \in Calls : EchoCanceled(k)
    \/ \E k \in Calls : TaskOneCreate(k)
    \/ \E k \in Calls : TaskOneTimer(k)
    \/ \E k \in Calls : TaskOneDone(k)
    \/ \E k \in Calls : TaskTwoDone(k)
    \/ \E k \in Calls : ParentRecv(k)
    \/ \E k \in Calls : ParentCheck(k)
    \/ \E k \in Calls : SimReturn(k)
    \/ \E k \in Calls : Retire(k)

Next == Steps \/ Tick

Spec == Init /\ [][Next]_vars

\* Scheduling: a goroutine that can take a step takes it, a timer whose time has come
\* fires, time passes, and the transport delivers what was sent.  The client's own
\* choices (issuing a call, calling cancel) are under no obligation.
Fairness ==
    /\ WF_vars(Tick)
    /\ WF_vars(ClientTimer)
    /\ WF_vars(ClientRecv)
    /\ WF_vars(ClientCtxDone)
    /\ \A k \in Calls :
          /\ WF_vars(RequestTimer(k))
          /\ WF_vars(WireCancel(k))
          /\ WF_vars(EchoUnspecified(k))
          /\ WF_vars(EchoRespond(k))
          /\ WF_vars(EchoDeadline(k))
          /\ WF_vars(EchoTimer(k))
          /\ WF_vars(EchoDeadlineReturn(k))
          /\ WF_vars(EchoUnknown(k))
          /\ WF_vars(EchoCanceled(k))
          /\ WF_vars(TaskOneCreate(k))
          /\ WF_vars(TaskOneTimer(k))
          /\ WF_vars(TaskOneDone(k))
          /\ WF_vars(TaskTwoDone(k))
          /\ WF_vars(ParentRecv(k))
          /\ WF_vars(ParentCheck(k))
          /\ WF_vars(SimReturn(k))

FairSpec == Init /\ [][Next]_vars /\ Fairness

\* ------------------------------------------- the parent's loop alone
\* what a task can put on collectErrs, a chan error: nil or an error
Reports == Causes

\* simTwoTasks at its collecting loop, taken as a unit of its own: collectErrs is
\* a chan error, and each of the numTasks senders offers one value of that type.
\* The two tasks of this program only ever offer ctx.Err() of a done scope; here
\* the senders offer any value, nil (success) included, to exercise the loop's
\* nil branch.
GroupInit ==
    /\ cctx = [s \in Scopes |-> "nil"]
    /\ tmoLeft = ClientTimeout
    /\ cpc = "waiting"
    /\ ncalls = 1
    /\ creq = [scope |-> "ctx", action |-> RETURN_CONTEXT_CANCELED, input |-> "in",
               serverSleep |-> 0, pre |-> "nil", sent |-> TRUE]
    /\ cres = NoResult
    /\ requestID = 1
    /\ responseSleep \in ResponseSleeps
    /\ \E e1 \in Reports, e2 \in Reports, c \in Causes :
          h = [k \in Calls |->
                 IF k = 1
                 THEN [IdleHandler EXCEPT
                         !.pc = "sim", !.action = RETURN_CONTEXT_CANCELED,
                         !.input = "in", !.reqID = 1,
                         !.rctx = c, !.shared = Propagate(c, "nil"),
                         !.t1ctx = Propagate(c, e1),
                         !.t1pc = "send", !.t1err = e1,
                         !.t2pc = "send", !.t2err = e2,
                         !.ppc = "recv"]
                 ELSE IdleHandler]

\* for i := 0; i < numTasks; i++ { lastErr = <-collectErrs; ... }; return lastErr
GroupNext ==
    \/ \E k \in Calls : ParentRecv(k)
    \/ \E k \in Calls : ParentCheck(k)
    \/ \E k \in Calls : SimReturn(k)

GroupSpec == GroupInit /\ [][GroupNext]_vars

\* --------------------------------------- concurrent handlers, one server
Handlers == 1..MaxHandlers

\* one server (newServer: requestID 0) with MaxHandlers requests in flight at once,
\* sent by as many clients, none of their handlers entered yet
ConcurrentInit ==
    /\ cctx = [s \in Scopes |-> "nil"]
    /\ tmoLeft = ClientTimeout
    /\ cpc = "idle"
    /\ ncalls = 0
    /\ creq = NoRequest
    /\ cres = NoResult
    /\ requestID = 0
    /\ responseSleep \in ResponseSleeps
    /\ \E acts \in [Handlers -> Actions] :
          h = [k \in Handlers |->
                 [IdleHandler EXCEPT !.pc = "inflight", !.action = acts[k],
                                     !.input = "in"]]

\* the gRPC server runs each Echo in a goroutine of its own: any handler in flight
\* may be the next one to execute s.requestID.Add(1) and take its case
ConcurrentNext ==
    \/ \E k \in Handlers : EchoUnspecified(k)
    \/ \E k \in Handlers : EchoDeadline(k)
    \/ \E k \in Handlers : EchoUnknown(k)
    \/ \E k \in Handlers : EchoCanceled(k)

ConcurrentSpec == ConcurrentInit /\ [][ConcurrentNext]_vars

\* ---------------------------------------------------- nominal timing
\* Something is overdue: a timer whose time has come has not fired, a client whose
\* scope is done has not returned from its call, or a reset of the stream has not
\* reached the server.
Urgent ==
    \/ ENABLED ClientTimer
    \/ ENABLED ClientCtxDone
    \/ \E k \in Calls :
          \/ ENABLED RequestTimer(k)
          \/ ENABLED WireCancel(k)
          \/ ENABLED EchoTimer(k)
          \/ ENABLED TaskOneTimer(k)

\* time passes only when nothing is overdue: timers, the client's wake-up on its
\* scope and the delivery of a reset are late by less than one unit of time
\* (clientTimeout, 100ms), as on a machine and network that are not stalled.
\* Goroutines and time.Sleep stay as slow as they like.
TimedTick == ~Urgent /\ Tick

TimedNext == Steps \/ TimedTick

TimedSpec == Init /\ [][TimedNext]_vars

TimedFairness ==
    /\ WF_vars(TimedTick)
    /\ WF_vars(ClientTimer)
    /\ WF_vars(ClientRecv)
    /\ WF_vars(ClientCtxDone)
    /\ \A k \in Calls :
          /\ WF_vars(RequestTimer(k))
          /\ WF_vars(WireCancel(k))
          /\ WF_vars(EchoUnspecified(k))
          /\ WF_vars(EchoRespond(k))
          /\ WF_vars(EchoDeadline(k))
          /\ WF_vars(EchoTimer(k))
          /\ WF_vars(EchoDeadlineReturn(k))
          /\ WF_vars(EchoUnknown(k))
          /\ WF_vars(EchoCanceled(k))
          /\ WF_vars(TaskOneCreate(k))
          /\ WF_vars(TaskOneTimer(k))
          /\ WF_vars(TaskOneDone(k))
          /\ WF_vars(TaskTwoDone(k))
          /\ WF_vars(ParentRecv(k))
          /\ WF_vars(ParentCheck(k))
          /\ WF_vars(SimReturn(k))

TimedFairSpec == Init /\ [][TimedNext]_vars /\ TimedFairness


\* --------------------------------------------------------------- claims
\* the handler of call k has returned from simTwoTasks
SimReturned(k) == h[k].pc = "done" /\ Case(h[k].action) = "canceled"

\* C1: when simTwoTasks runs on a request scope that has no deadline and has not
\* fired by the time it returns, it returns context.Canceled, never
\* context.DeadlineExceeded
C1_SimReturnsCanceled ==
    \A k \in Calls :
        (SimReturned(k) /\ h[k].rleft = NoDeadline /\ h[k].rctx = "nil")
            => h[k].err = "Canceled"

\* task one reported deadline exceeded first, task two canceled last, on a scope
\* without deadline that never fired, and simTwoTasks returned canceled
C1_Witness ==
    \E k \in Calls :
        /\ SimReturned(k) /\ h[k].rleft = NoDeadline /\ h[k].rctx = "nil"
        /\ h[k].recvd = <<"DeadlineExceeded", "Canceled">>
        /\ h[k].err = "Canceled"

\* C2: whatever the two tasks report and in whatever order, simTwoTasks returns
\* the error of the last of the numTasks reports received on collectErrs
C2_LastReportWins ==
    \A k \in Calls :
        SimReturned(k) =>
            /\ Len(h[k].recvd) = numTasks
            /\ h[k].err = h[k].recvd[numTasks]

\* the two reports differ and the returned error is the second, not the first
C2_Witness ==
    \E k \in Calls :
        /\ SimReturned(k)
        /\ h[k].recvd[1] # h[k].recvd[numTasks]
        /\ h[k].err = h[k].recvd[numTasks]
        /\ h[k].err # h[k].recvd[1]

\* the parent of handler k has collected a non-nil error
CollectedError(k) == \E j \in 1..Len(h[k].recvd) : h[k].recvd[j] # "nil"

\* C3: once the parent has received a non-nil error, the shared scope (and task
\* one's scope under it) is done whenever the parent waits for the next report
C3_CancelBeforeNextRecv ==
    \A k \in Calls :
        (h[k].pc = "sim" /\ h[k].ppc = "recv" /\ CollectedError(k))
            => /\ h[k].shared # "nil"
               /\ HasTaskOneCtx(h[k]) => h[k].t1ctx # "nil"

\* the parent waits for the second report with the shared scope cancelled while
\* task two is still blocked on its done signal
C3_Witness ==
    \E k \in Calls :
        /\ h[k].pc = "sim" /\ h[k].ppc = "recv" /\ h[k].i = 1
        /\ h[k].recvd = <<"DeadlineExceeded">>
        /\ h[k].shared = "Canceled"
        /\ h[k].t2pc = "wait"


\* the handler of call k has returned from the RETURN_CONTEXT_DEADLINE_EXCEEDED case
DeadlineReturned(k) == h[k].pc = "done" /\ Case(h[k].action) = "deadline"

\* C4 as stated: a RETURN_CONTEXT_DEADLINE_EXCEEDED request ends with
\* context.DeadlineExceeded and status DEADLINE_EXCEEDED whatever the caller's
\* scope does, a cancel by the caller while the handler waits included
C4_Original ==
    \A k \in Calls :
        DeadlineReturned(k) =>
            h[k].err = "DeadlineExceeded" /\ h[k].status = "DEADLINE_EXCEEDED"

\* C4 amended: a RETURN_CONTEXT_DEADLINE_EXCEEDED request ends with
\* context.DeadlineExceeded (status DEADLINE_EXCEEDED) whenever the request scope
\* has no cause or the deadline-exceeded cause when the handler returns; the only
\* other outcome is context.Canceled (status CANCELED), and only when the
\* caller's cancel has reached the request scope
C4_DeadlineUnlessCanceled ==
    \A k \in Calls :
        DeadlineReturned(k) =>
            /\ h[k].resp = NoResp
            /\ \/ h[k].err = "DeadlineExceeded" /\ h[k].status = "DEADLINE_EXCEEDED"
               \/ /\ h[k].err = "Canceled" /\ h[k].status = "CANCELED"
                  /\ h[k].rctx = "Canceled"
            /\ h[k].rctx \in {"nil", "DeadlineExceeded"} => h[k].err = "DeadlineExceeded"

\* the handler returned deadline exceeded on a request scope that carries a deadline
\* and has not fired
C4_Witness ==
    \E k \in Calls :
        /\ DeadlineReturned(k)
        /\ h[k].rleft # NoDeadline /\ h[k].rctx = "nil"
        /\ h[k].err = "DeadlineExceeded" /\ h[k].status = "DEADLINE_EXCEEDED"

\* C5 as stated: a RETURN_CONTEXT_CANCELED request ends with context.Canceled and
\* status CANCELED in every execution
C5_Original ==
    \A k \in Calls :
        SimReturned(k) => h[k].err = "Canceled" /\ h[k].status = "CANCELED"

\* C5 amended: a RETURN_CONTEXT_CANCELED request runs simTwoTasks on the request
\* scope and ends with context.Canceled (status CANCELED) in every execution in
\* which the request scope has not fired when simTwoTasks returns; when it has
\* fired the outcome is context.Canceled or context.DeadlineExceeded with the
\* matching status, and never a response
C5_CanceledUnlessRequestFired ==
    \A k \in Calls :
        /\ (Case(h[k].action) = "canceled" /\ h[k].pc \in {"sim", "done"})
              => h[k].ppc # "none" /\ h[k].sleepLeft = 0
        /\ SimReturned(k) =>
            /\ h[k].resp = NoResp
            /\ h[k].rctx = "nil" => (h[k].err = "Canceled" /\ h[k].status = "CANCELED")
            /\ \/ h[k].err = "Canceled" /\ h[k].status = "CANCELED"
               \/ h[k].err = "DeadlineExceeded" /\ h[k].status = "DEADLINE_EXCEEDED"

\* the handler ran the task group to its end on a request scope that carries a
\* deadline and has not fired, and the status sent is CANCELED
C5_Witness ==
    \E k \in Calls :
        /\ SimReturned(k)
        /\ h[k].ppc = "done" /\ h[k].rleft # NoDeadline /\ h[k].rctx = "nil"
        /\ h[k].status = "CANCELED"

\* the current call has returned to the client
CallReturned == cpc = "idle" /\ ncalls >= 1

\* C6: a request with action UNSPECIFIED and server_sleep 0 on a scope that has not
\* fired returns output "echoed: " followed by the input, with status OK
C6_PlainEcho ==
    (/\ CallReturned
     /\ creq.action = UNSPECIFIED /\ creq.serverSleep = 0
     /\ cctx[creq.scope] = "nil")
        => /\ cres.status = "OK"
           /\ cres.resp = "echoed: " \o creq.input
           /\ cres.origin = "server"

\* the plain request returned the echo of a non-empty input
C6_Witness ==
    /\ CallReturned
    /\ creq.action = UNSPECIFIED /\ creq.serverSleep = 0 /\ creq.scope = "ctx"
    /\ creq.input = "in"
    /\ cres.status = "OK" /\ cres.resp = "echoed: in"

\* C7: a request whose action is none of the three defined ones ends with
\* INVALID_ARGUMENT and no response; its handler never sleeps, never waits on a
\* 10ns scope, never runs the task group and never returns OK
C7_UnknownAction ==
    \A k \in Calls :
        h[k].action \notin {UNSPECIFIED, RETURN_CONTEXT_DEADLINE_EXCEEDED,
                            RETURN_CONTEXT_CANCELED}
            => /\ h[k].pc \in {"inflight", "done"}
               /\ h[k].ppc = "none" /\ h[k].t1pc = "none" /\ h[k].t2pc = "none"
               /\ h[k].pc = "done" =>
                     /\ h[k].err = "InvalidArgument"
                     /\ h[k].status = "INVALID_ARGUMENT"
                     /\ h[k].resp = NoResp

\* the handler of a request with an unknown action has returned INVALID_ARGUMENT
C7_Witness ==
    \E k \in Calls :
        /\ h[k].action = UnknownAction /\ h[k].pc = "done"
        /\ h[k].status = "INVALID_ARGUMENT" /\ h[k].reqID >= 1


\* the step issues a call on a scope whose cause is already c
IssuedOn(c) == ncalls' = ncalls + 1 /\ cctx[creq'.scope] = c

\* the server's part of a step that issues a call it never sees: the counter is
\* untouched and the call has no handler
NotServed == requestID' = requestID /\ h'[ncalls'].pc = "closed"

\* a call without a handler never gets one, and the request counter moves only
\* when the handler of a request that was sent is entered
NeverServedLater ==
    /\ \A k \in Calls : h[k].pc = "closed" => h'[k].pc = "closed"
    /\ requestID' # requestID =>
          \E k \in Calls : h[k].pc = "inflight" /\ h'[k].reqID = requestID'

\* the current call was issued on a scope with cause c and came back at once with
\* the status st, made by the client, without a request
RefusedWith(c, st) ==
    (ncalls >= 1 /\ creq.pre = c) =>
        /\ cpc = "idle" /\ ~creq.sent
        /\ h[ncalls].pc = "closed"
        /\ cres = [status |-> st, resp |-> NoResp, origin |-> "client"]

\* C8: a call issued on an already cancelled scope never reaches the server (no
\* handler is entered for it, the request counter does not change) and the
\* caller observes status CANCELED
C8_CancelledScopeNoRequest ==
    /\ [](RefusedWith("Canceled", "CANCELED"))
    /\ [][(IssuedOn("Canceled") => NotServed) /\ NeverServedLater]_vars

\* a call was issued on the cancelled ctxWithCancel and returned CANCELED
C8_Witness ==
    /\ CallReturned
    /\ creq.scope = "ctxWithCancel" /\ creq.pre = "Canceled"
    /\ cres.status = "CANCELED" /\ requestID = 0

\* C9: a call issued on a scope whose deadline has already elapsed never reaches
\* the server (no handler is entered for it, the request counter does not
\* change) and the caller observes status DEADLINE_EXCEEDED
C9_TimedOutScopeNoRequest ==
    /\ [](RefusedWith("DeadlineExceeded", "DEADLINE_EXCEEDED"))
    /\ [][(IssuedOn("DeadlineExceeded") => NotServed) /\ NeverServedLater]_vars

\* a call was issued on the timed out ctxTimeout and returned DEADLINE_EXCEEDED
C9_Witness ==
    /\ CallReturned
    /\ creq.scope = "ctxTimeout" /\ creq.pre = "DeadlineExceeded"
    /\ cres.status = "DEADLINE_EXCEEDED" /\ requestID = 0

TerminalStatuses == {"OK", "CANCELED", "DEADLINE_EXCEEDED", "INVALID_ARGUMENT"}

\* C10: every call returns, with one terminal status that stays the call's
\* result; a call in flight on a scope that is done can return at once, whatever
\* the handler is doing
C10_CallAlwaysReturns ==
    /\ [](CallReturned => cres.status \in TerminalStatuses)
    /\ []((cpc = "waiting" /\ cctx[creq.scope] # "nil") => ENABLED ClientCtxDone)
    /\ [][(cpc = "idle" /\ ncalls' = ncalls) => cres' = cres]_vars
    /\ (cpc = "waiting") ~> (cpc = "idle")

\* the call returned DEADLINE_EXCEEDED to the client while its handler is still asleep
C10_Witness ==
    /\ CallReturned /\ creq.sent
    /\ cres.status = "DEADLINE_EXCEEDED" /\ cres.origin = "client"
    /\ h[ncalls].pc = "sleep" /\ h[ncalls].sleepLeft > 0


\* the status the server sends for each outcome of the handler, as a table
StatusTable ==
    [nil |-> "OK", DeadlineExceeded |-> "DEADLINE_EXCEEDED",
     Canceled |-> "CANCELED", InvalidArgument |-> "INVALID_ARGUMENT"]

\* C11: whatever the Echo handler returns is translated by one fixed mapping: nil
\* gives OK, context.DeadlineExceeded gives DEADLINE_EXCEEDED, context.Canceled
\* gives CANCELED and the unknown-action error gives INVALID_ARGUMENT; the handler
\* returns nothing else, a response goes with OK and only with OK, and the client
\* that gets the server's answer gets that status
C11_FixedStatusMapping ==
    /\ \A k \in Calls :
          h[k].pc = "done" =>
              /\ h[k].err \in DOMAIN StatusTable
              /\ h[k].status = StatusTable[h[k].err]
              /\ h[k].err = "InvalidArgument" <=> Case(h[k].action) = "default"
              /\ h[k].resp # NoResp <=> h[k].status = "OK"
    /\ (CallReturned /\ cres.origin = "server" /\ h[ncalls].pc = "done")
          => cres.status = h[ncalls].status

\* the task group's handler returned context.Canceled and the client got CANCELED
\* from the server
C11_Witness ==
    /\ CallReturned /\ cres.origin = "server" /\ cres.status = "CANCELED"
    /\ SimReturned(ncalls) /\ h[ncalls].err = "Canceled"

\* C12: a call that came back with a status other than OK while the scope it was
\* made on has no cause got that status from the server: the request was sent,
\* the handler of this request returned an error, and the status is the
\* translation of that error
C12_NonOkOnLiveScopeIsFromServer ==
    (CallReturned /\ cres.status # "OK" /\ cctx[creq.scope] = "nil")
        => /\ cres.origin = "server"
           /\ creq.sent /\ creq.pre = "nil"
           /\ h[ncalls].pc \in {"done", "closed"}
           /\ h[ncalls].pc = "done" =>
                 /\ h[ncalls].err # "nil"
                 /\ cres.status = h[ncalls].status

\* RETURN_CONTEXT_DEADLINE_EXCEEDED on the Background scope: the call came back
\* DEADLINE_EXCEEDED and the caller's scope has no cause
C12_Witness ==
    /\ CallReturned /\ creq.scope = "ctx" /\ cctx["ctx"] = "nil"
    /\ creq.action = RETURN_CONTEXT_DEADLINE_EXCEEDED
    /\ cres.status = "DEADLINE_EXCEEDED" /\ cres.origin = "server"
    /\ h[ncalls].pc = "done" /\ h[ncalls].err = "DeadlineExceeded"

\* the handler of call k is in time.Sleep and the time is not up
Asleep(k) == h[k].pc = "sleep" /\ h[k].sleepLeft > 0

SameHandler(k) ==
    /\ h[k].pc \notin {"idle", "closed"}
    /\ h'[k].pc \notin {"idle", "closed"}

\* a scope keeps the cause it has
Sticks(old, new) == old # "nil" => new = old

\* a scope without cause gets one only from its ancestor (whose cause it takes), from
\* its own deadline that has elapsed, or from a call of its own cancel function
FiresBy(old, new, ancestor, deadlineElapsed, cancelInvoked) ==
    (old = "nil" /\ new # "nil") =>
        \/ new = ancestor
        \/ new = "DeadlineExceeded" /\ deadlineElapsed
        \/ new = "Canceled" /\ cancelInvoked

\* C14: every scope of the client, of the Echo handler and of simTwoTasks is
\* without cause until its cancel function is called, its deadline has elapsed or
\* its ancestor has fired, and the cause it has got never changes, whatever
\* cancel calls and timers follow; the Background scope never gets one
C14_ScopesFireOnce ==
    /\ [](cctx["ctx"] = "nil")
    /\ [][/\ \A s \in Scopes :
               /\ Sticks(cctx[s], cctx'[s])
               /\ FiresBy(cctx[s], cctx'[s], "nil",
                          s = "ctxTimeout" /\ tmoLeft = 0, s \in Cancellable)
          /\ \A k \in Calls : SameHandler(k) =>
               /\ Sticks(h[k].rctx, h'[k].rctx)
               /\ Sticks(h[k].ectx, h'[k].ectx)
               /\ Sticks(h[k].shared, h'[k].shared)
               /\ Sticks(h[k].t1ctx, h'[k].t1ctx)
               /\ FiresBy(h[k].rctx, h'[k].rctx, "nil", h[k].rleft = 0, h[k].rst)
               /\ FiresBy(h[k].ectx, h'[k].ectx, h'[k].rctx, h[k].eleft = 0, FALSE)
               /\ FiresBy(h[k].shared, h'[k].shared, h'[k].rctx, FALSE,
                          h[k].ppc \in {"check", "ret"})
               /\ FiresBy(h[k].t1ctx, h'[k].t1ctx, h'[k].shared, h[k].t1left = 0, FALSE)
         ]_vars

\* task one's scope fired by its deadline and kept that cause through task one's
\* own cancel() and the parent's cancel of the shared scope above it
C14_Witness ==
    \E k \in Calls :
        /\ h[k].pc = "sim" /\ h[k].t1pc = "done"
        /\ h[k].t1ctx = "DeadlineExceeded" /\ h[k].shared = "Canceled"
        /\ h[k].rctx = "nil"

\* neither task of handler k is blocked on a done signal: each has read its error
Unblocked(k) == h[k].t1pc \in {"send", "done"} /\ h[k].t2pc \in {"send", "done"}

\* C15: once ctxWithCancel is done, by the parent's cancel or by the firing of the
\* request scope above it, task one and task two both get past their wait on
\* Done(); and once the request scope is done the handler that waits on its 10ns
\* scope returns
C15_DescendantsGetDone ==
    \A k \in Calls :
        /\ (h[k].pc = "sim" /\ (h[k].shared # "nil" \/ h[k].rctx # "nil"))
              ~> Unblocked(k)
        /\ (h[k].pc = "dlwait" /\ h[k].rctx # "nil") ~> (h[k].pc = "done")

\* the request scope was cancelled while both tasks waited: both woke up with
\* context.Canceled before the parent had received anything
C15_Witness ==
    \E k \in Calls :
        /\ h[k].pc = "sim" /\ h[k].rctx = "Canceled" /\ h[k].recvd = <<>>
        /\ Unblocked(k)
        /\ h[k].t1err = "Canceled" /\ h[k].t2err = "Canceled"

\* the current call is a plain request on ctxTimeout that asks for a sleep longer
\* than clientTimeout, and the caller has not cancelled the scope itself
TimeoutShorterThanSleep ==
    /\ ncalls >= 1 /\ creq.sent
    /\ creq.scope = "ctxTimeout" /\ creq.action = UNSPECIFIED
    /\ creq.serverSleep > ClientTimeout
    /\ cctx["ctxTimeout"] # "Canceled"

OneReport(k) ==
    /\ Len(h'[k].recvd) = Len(h[k].recvd) + 1
    /\ \/ /\ h[k].t1pc = "send" /\ h'[k].t1pc = "done" /\ h'[k].t2pc = h[k].t2pc
          /\ h'[k].recvd = Append(h[k].recvd, h[k].t1err)
       \/ /\ h[k].t2pc = "send" /\ h'[k].t2pc = "done" /\ h'[k].t1pc = h[k].t1pc
          /\ h'[k].recvd = Append(h[k].recvd, h[k].t2err)

\* C17: simTwoTasks terminates under fair scheduling whatever the request scope
\* does (never fired, cancelled or timed out, before or during the call); the
\* parent then has received exactly numTasks reports, one from each task: a report
\* is one rendezvous with a task that was sending, a task that has reported never
\* sends again, and at the return both task goroutines have ended
C17_SimTwoTasksTerminates ==
    /\ [](\A k \in Calls :
            SimReturned(k) =>
                /\ Len(h[k].recvd) = numTasks /\ h[k].i = numTasks
                /\ h[k].t1pc = "done" /\ h[k].t2pc = "done" /\ h[k].ppc = "done")
    /\ [][\A k \in Calls : SameHandler(k) =>
            /\ h'[k].recvd # h[k].recvd => OneReport(k)
            /\ h[k].t1pc = "done" => h'[k].t1pc = "done"
            /\ h[k].t2pc = "done" => h'[k].t2pc = "done"]_vars
    /\ \A k \in Calls : (h[k].pc = "sim") ~> (h[k].pc = "done")

\* simTwoTasks returned on a request scope whose deadline elapsed: two reports of
\* context.DeadlineExceeded, both tasks ended
C17_Witness ==
    \E k \in Calls :
        /\ SimReturned(k) /\ h[k].rctx = "DeadlineExceeded"
        /\ h[k].recvd = <<"DeadlineExceeded", "DeadlineExceeded">>
        /\ h[k].t1pc = "done" /\ h[k].t2pc = "done"

\* the handler of call k runs, or has run, the plain path of Echo
PlainPath(k) == Case(h[k].action) = "unspecified" /\ h[k].pc \in {"sleep", "done"}

\* C18: on the plain path (action UNSPECIFIED) the firing of the request scope does
\* not interrupt the handler: whatever the cause of the request scope, the handler
\* leaves time.Sleep only when the time is up, and only by returning the echoed
\* response with a nil error (status OK)
C18_SleepIsNotInterrupted ==
    /\ [](\A k \in Calls :
            (PlainPath(k) /\ h[k].pc = "done") =>
                /\ h[k].err = "nil" /\ h[k].status = "OK"
                /\ h[k].resp = "echoed: " \o h[k].input)
    /\ [][\A k \in Calls :
            (h[k].pc = "sleep" /\ h'[k].pc # "sleep") =>
                /\ h[k].sleepLeft = 0
                /\ h'[k].pc = "done" /\ h'[k].rctx = h[k].rctx
                /\ h'[k].resp = "echoed: " \o h[k].input]_vars
    /\ [][\A k \in Calls :
            (Asleep(k) /\ h'[k].rctx # h[k].rctx) =>
                (h'[k].pc = "sleep" /\ h'[k].sleepLeft = h[k].sleepLeft)]_vars

\* the handler slept through the cancellation of its request scope and returned
\* the echo
C18_Witness ==
    \E k \in Calls :
        /\ PlainPath(k) /\ h[k].pc = "done" /\ h[k].serverSleep = LongSleep
        /\ h[k].rctx = "Canceled"
        /\ h[k].err = "nil" /\ h[k].resp = "echoed: in"

\* the units that wait on a scope report the cause they read from it: task one and
\* task two on collectErrs, the RETURN_CONTEXT_DEADLINE_EXCEEDED branch as Echo's
\* error, and Echo returns the error of simTwoTasks, which is one of the reports
WaitersReportCause(k) ==
    /\ h[k].t1pc \in {"send", "done"} => (h[k].t1err # "nil" /\ h[k].t1err = h[k].t1ctx)
    /\ h[k].t2pc \in {"send", "done"} => (h[k].t2err # "nil" /\ h[k].t2err = h[k].shared)
    /\ \A j \in 1..Len(h[k].recvd) : h[k].recvd[j] \in {h[k].t1err, h[k].t2err} \ {"nil"}
    /\ SimReturned(k) => (h[k].err \in {h[k].t1err, h[k].t2err} /\ h[k].status # "OK")
    /\ DeadlineReturned(k) =>
          (h[k].err # "nil" /\ h[k].err = h[k].ectx /\ h[k].status # "OK")

\* C19 as stated: every unit that reads a cause from its scope returns or reports
\* that cause; for the plain path of Echo, which reads ctx.Err() after the sleep,
\* a request scope that is done makes the handler return its cause
C19_Original ==
    \A k \in Calls :
        /\ WaitersReportCause(k)
        /\ (PlainPath(k) /\ h[k].pc = "done" /\ h[k].rctx # "nil")
              => h[k].err = h[k].rctx

\* C19 amended: task one, task two and the RETURN_CONTEXT_DEADLINE_EXCEEDED branch
\* report exactly the cause they read from the scope they waited on, and Echo
\* returns simTwoTasks' error, never success; the plain path of Echo is the
\* exception: it reads ctx.Err() after the sleep for the log only and returns the
\* response with a nil error also when the request scope is done
C19_WaitersReportTheirCause ==
    \A k \in Calls :
        /\ WaitersReportCause(k)
        /\ (PlainPath(k) /\ h[k].pc = "done") => h[k].err = "nil"

\* the RETURN_CONTEXT_DEADLINE_EXCEEDED branch woke up on a cancelled scope and
\* returned context.Canceled, the cause it read
C19_Witness ==
    \E k \in Calls :
        /\ DeadlineReturned(k)
        /\ h[k].ectx = "Canceled" /\ h[k].err = "Canceled" /\ h[k].status = "CANCELED"

\* what the caller has in hand after the call: the status, the response and the
\* cause of the scope the call was made on
CallerView == <<cres.status, cres.resp, cctx[creq.scope]>>

\* the caller sees the pair the README reads as "most likely a client-side timeout"
LooksLikeClientTimeout ==
    /\ CallReturned
    /\ cres.status = "DEADLINE_EXCEEDED" /\ cctx[creq.scope] = "DeadlineExceeded"

\* C20: a DEADLINE_EXCEEDED status together with a local cause of
\* context.DeadlineExceeded does not tell the origin: what the caller has in hand
\* is the same triple whether the client made the status or the server sent it;
\* when the server sent it, the handler of this request (the
\* RETURN_CONTEXT_DEADLINE_EXCEEDED or RETURN_CONTEXT_CANCELED one) returned
\* context.DeadlineExceeded, and the later firing of the caller's scope leaves the
\* result as it was
C20_TimeoutOriginIsARace ==
    /\ [](LooksLikeClientTimeout =>
            /\ CallerView = <<"DEADLINE_EXCEEDED", NoResp, "DeadlineExceeded">>
            /\ cres.origin \in {"client", "server"}
            /\ cres.origin = "server" =>
                  /\ creq.sent
                  /\ creq.action \in {RETURN_CONTEXT_DEADLINE_EXCEEDED,
                                      RETURN_CONTEXT_CANCELED}
                  /\ h[ncalls].pc = "done" => h[ncalls].err = "DeadlineExceeded")
    /\ [][(CallReturned /\ ncalls' = ncalls /\ cctx[creq.scope] = "nil")
            => cres' = cres]_vars

\* the race: the handler's 10ns scope timed out, the client returned the server's
\* DEADLINE_EXCEEDED, and the caller's own scope has timed out by the time it is
\* inspected
C20_Witness ==
    /\ LooksLikeClientTimeout
    /\ cres.origin = "server" /\ creq.scope = "ctxTimeout"
    /\ creq.action = RETURN_CONTEXT_DEADLINE_EXCEEDED
    /\ h[ncalls].pc = "done" /\ h[ncalls].err = "DeadlineExceeded"
    /\ h[ncalls].rctx = "nil"

\* C21: a cancel() on a scope that has a cause changes nothing: task one and the
\* RETURN_CONTEXT_DEADLINE_EXCEEDED branch call cancel() between the done signal
\* and ctx.Err(), and the error they read is the cause the scope had when they
\* woke (context.DeadlineExceeded when the 10ns timer fired first); and the
\* parent's cancel() calls on a ctxWithCancel that is done, after a non-nil report
\* and on return, leave its cause as it was
C21_CancelAfterDoneIsNoOp ==
    [][\A k \in Calls :
        /\ (h[k].pc = "sim" /\ h[k].t1pc = "wait" /\ h'[k].t1pc = "send") =>
              /\ h[k].t1ctx # "nil"
              /\ h'[k].t1ctx = h[k].t1ctx /\ h'[k].t1err = h[k].t1ctx
        /\ (h[k].pc = "dlwait" /\ h'[k].pc = "done") =>
              /\ h[k].ectx # "nil"
              /\ h'[k].ectx = h[k].ectx /\ h'[k].err = h[k].ectx
        /\ (/\ h[k].pc = "sim" /\ h[k].ppc \in {"check", "ret"}
            /\ h'[k].ppc # h[k].ppc /\ h[k].shared # "nil") =>
              /\ h'[k].shared = h[k].shared
              /\ h'[k].t1ctx = h[k].t1ctx
       ]_vars

\* simTwoTasks returned on a request scope that timed out: ctxWithCancel and task
\* one's scope kept context.DeadlineExceeded through task one's cancel(), the
\* parent's cancel() after each report and the deferred cancel()
C21_Witness ==
    \E k \in Calls :
        /\ SimReturned(k) /\ h[k].i = numTasks
        /\ h[k].shared = "DeadlineExceeded" /\ h[k].t1ctx = "DeadlineExceeded"
        /\ h[k].t1err = "DeadlineExceeded" /\ h[k].t2err = "DeadlineExceeded"

\* C22: whenever simTwoTasks has returned, ctxWithCancel is done; and no step of
\* simTwoTasks (the tasks, the parent's cancel() calls, the deferred cancel())
\* touches the request scope it was given: that scope changes only by its own
\* deadline or by the client's reset, while the task group stands still
C22_SharedDoneParentUntouched ==
    /\ [](\A k \in Calls : SimReturned(k) => h[k].shared # "nil")
    /\ [][\A k \in Calls :
            (h[k].pc = "sim" /\ h'[k].rctx # h[k].rctx) =>
                /\ h[k].rctx = "nil"
                /\ h[k].rleft = 0 \/ h[k].rst
                /\ h'[k].pc = "sim" /\ h'[k].ppc = h[k].ppc /\ h'[k].i = h[k].i
                /\ h'[k].t1pc = h[k].t1pc /\ h'[k].t2pc = h[k].t2pc
                /\ h'[k].recvd = h[k].recvd]_vars

\* simTwoTasks returned with ctxWithCancel cancelled while the request scope,
\* which carries a deadline, has no cause
C22_Witness ==
    \E k \in Calls :
        /\ SimReturned(k) /\ h[k].shared = "Canceled"
        /\ h[k].rctx = "nil" /\ h[k].rleft # NoDeadline
        /\ h[k].err = "Canceled"

\* every report the parent of handler k has received so far is nil
AllNilSoFar(k) == \A j \in 1..Len(h[k].recvd) : h[k].recvd[j] = "nil"

InSim(k) == Case(h[k].action) = "canceled" /\ h[k].pc \in {"sim", "done"}

\* C24: task two has read its error only if ctxWithCancel is done, and
\* ctxWithCancel is done only if the parent has collected a non-nil report or the
\* request scope has fired; so as long as the request scope has not fired, the
\* first report is task one's and is context.DeadlineExceeded, and the second is
\* task two's and is context.Canceled
C24_TaskOneReportsFirst ==
    \A k \in Calls : InSim(k) =>
        /\ h[k].t2pc \in {"send", "done"} => h[k].shared # "nil"
        /\ h[k].shared # "nil" => (CollectedError(k) \/ h[k].rctx # "nil")
        /\ h[k].rctx = "nil" =>
              /\ h[k].t1pc \in {"send", "done"} => h[k].t1err = "DeadlineExceeded"
              /\ h[k].t2pc \in {"send", "done"} =>
                    (h[k].t1pc = "done" /\ h[k].t2err = "Canceled")
              /\ Len(h[k].recvd) >= 1 =>
                    (h[k].t1pc = "done" /\ h[k].recvd[1] = "DeadlineExceeded")
              /\ Len(h[k].recvd) = numTasks =>
                    (h[k].t2pc = "done" /\ h[k].recvd[numTasks] = "Canceled")

\* the request scope has not fired, task one's deadline-exceeded report is in, and
\* task two, woken by the parent's cancel, is offering context.Canceled
C24_Witness ==
    \E k \in Calls :
        /\ h[k].pc = "sim" /\ h[k].rctx = "nil"
        /\ h[k].recvd = <<"DeadlineExceeded">> /\ h[k].t1pc = "done"
        /\ h[k].t2pc = "send" /\ h[k].t2err = "Canceled"

\* C25: simTwoTasks never returns nil: whatever the request scope does, its return
\* value is context.Canceled or context.DeadlineExceeded; so a request with action
\* RETURN_CONTEXT_CANCELED or RETURN_CONTEXT_DEADLINE_EXCEEDED never ends with a
\* response or with status OK, on the server or at the client
C25_NeverSuccess ==
    /\ \A k \in Calls :
          /\ (h[k].pc = "sim" /\ h[k].ppc \in {"check", "ret"})
                => h[k].lastErr \in {"Canceled", "DeadlineExceeded"}
          /\ SimReturned(k) => h[k].err \in {"Canceled", "DeadlineExceeded"}
          /\ (SimReturned(k) \/ DeadlineReturned(k)) =>
                /\ h[k].err # "nil" /\ h[k].resp = NoResp
                /\ h[k].status \in {"CANCELED", "DEADLINE_EXCEEDED"}
    /\ (CallReturned /\ creq.action \in {RETURN_CONTEXT_CANCELED,
                                         RETURN_CONTEXT_DEADLINE_EXCEEDED})
          => (cres.resp = NoResp /\ cres.status \in {"CANCELED", "DEADLINE_EXCEEDED"})

\* a RETURN_CONTEXT_CANCELED request on a scope that timed out during the call:
\* simTwoTasks returned context.DeadlineExceeded and the client got
\* DEADLINE_EXCEEDED from the server, without a response
C25_Witness ==
    /\ CallReturned /\ creq.action = RETURN_CONTEXT_CANCELED
    /\ cres.origin = "server" /\ cres.status = "DEADLINE_EXCEEDED" /\ cres.resp = NoResp
    /\ SimReturned(ncalls) /\ h[ncalls].err = "DeadlineExceeded"

\* the handlers that have executed s.requestID.Add(1)
Entered == {k \in Handlers : h[k].pc # "inflight"}

\* the request IDs handed out so far
HandedOut == {h[k].reqID : k \in Entered}

\* C26: with any number of handlers entering concurrently on one server, each
\* invocation gets a requestID of its own, the IDs handed out after n invocations
\* are exactly 1..n, and the counter is n: every entry adds exactly one and hands
\* out the new value
C26_RequestIDsUnique ==
    /\ [](/\ \A k1, k2 \in Entered : k1 # k2 => h[k1].reqID # h[k2].reqID
          /\ HandedOut = 1..Cardinality(Entered)
          /\ requestID = Cardinality(Entered))
    /\ [][\A k \in Handlers :
            (h[k].pc = "inflight" /\ h'[k].pc # "inflight") =>
                /\ requestID' = requestID + 1
                /\ h'[k].reqID = requestID']_vars

\* all handlers have entered, in an order that is not the order of their
\* requests, and hold the IDs 1..MaxHandlers
C26_Witness ==
    /\ Entered = Handlers /\ requestID = MaxHandlers
    /\ HandedOut = 1..MaxHandlers
    /\ h[1].reqID = MaxHandlers /\ h[MaxHandlers].reqID = 1

=============================================================================
